---- MODULE Spec2Model ----
(***************************************************************************)
(* Model of the NCP local residual (dumux/boxmodels/ncp/ncplocalresidual.hh)*)
(* and of the 1p2c lens Newton controller                                  *)
(* (appl/lecture/msm/1p2cvs2p/lens_1p2cnewtoncontroller.hh).               *)
(*                                                                         *)
(* A Scalar is an exact decimal-scaled rational [n, d, e] = n/d * 10^e in  *)
(* canonical form: gcd(n, d) = 1, d > 0 and coprime to 10, n not divisible *)
(* by 10, zero = [0, 1, 0].  Arithmetic is exact (no rounding).            *)
(***************************************************************************)
EXTENDS Integers, Sequences, FiniteSets, TLC

\* ------------------------------------------------------------------------
\* Scalar arithmetic
\* ------------------------------------------------------------------------

AbsInt(i) == IF i < 0 THEN -i ELSE i

RECURSIVE Gcd(_, _)
Gcd(a, b) == IF b = 0 THEN a ELSE Gcd(b, a % b)

RECURSIVE Pow10(_)
Pow10(k) == IF k = 0 THEN 1 ELSE 10 * Pow10(k - 1)

\* canonical form of n/d * 10^e for n # 0, d > 0, gcd(|n|, d) = 1
RECURSIVE NormR(_, _, _)
NormR(n, d, e) ==
    IF d % 2 = 0 THEN NormR(n * 5, d \div 2, e - 1)
    ELSE IF d % 5 = 0 THEN NormR(n * 2, d \div 5, e - 1)
    ELSE IF n % 10 = 0 THEN NormR(n \div 10, d, e + 1)
    ELSE [n |-> n, d |-> d, e |-> e]

Zero == [n |-> 0, d |-> 1, e |-> 0]

\* the Scalar n/d * 10^e, for any integers n, d # 0, e
Sc(n, d, e) ==
    IF n = 0 THEN Zero
    ELSE LET s == IF d < 0 THEN -1 ELSE 1
             g == Gcd(AbsInt(n), AbsInt(d))
         IN  NormR((s * n) \div g, (s * d) \div g, e)

One == Sc(1, 1, 0)

Neg(x) == [x EXCEPT !.n = -x.n]

\* std::abs
Abs(x) == IF x.n < 0 THEN Neg(x) ELSE x

MinInt(a, b) == IF a < b THEN a ELSE b

Add(x, y) ==
    LET m  == MinInt(x.e, y.e)
        xn == x.n * Pow10(x.e - m)
        yn == y.n * Pow10(y.e - m)
    IN  Sc(xn * y.d + yn * x.d, x.d * y.d, m)

Sub(x, y) == Add(x, Neg(y))

\* x / y for y # 0
Div(x, y) == Sc(x.n * y.d, x.d * y.n, x.e - y.e)

\* a/b < c/d for a, c >= 0 and b, d > 0, by continued fractions (no products)
RECURSIVE RatLess(_, _, _, _)
RatLess(a, b, c, d) ==
    LET q1 == a \div b
        q2 == c \div d
        r1 == a % b
        r2 == c % d
    IN  IF q1 # q2 THEN q1 < q2
        ELSE IF r1 = 0 THEN r2 > 0
        ELSE IF r2 = 0 THEN FALSE
        ELSE RatLess(d, r2, b, r1)

\* x < y for x, y > 0.  Mantissas are below 2^31, so an exponent gap of 19
\* or more decides the comparison on its own.
LessPos(x, y) ==
    LET k == x.e - y.e
    IN  IF k >= 19 THEN FALSE
        ELSE IF k <= -19 THEN TRUE
        ELSE IF k >= 0 THEN RatLess(x.n * Pow10(k), x.d, y.n, y.d)
        ELSE RatLess(x.n, x.d, y.n * Pow10(-k), y.d)

\* operator<
Less(x, y) ==
    IF x.n < 0 THEN (IF y.n >= 0 THEN TRUE ELSE LessPos(Neg(y), Neg(x)))
    ELSE IF x.n = 0 THEN y.n > 0
    ELSE (IF y.n <= 0 THEN FALSE ELSE LessPos(x, y))

\* operator<=
Leq(x, y) == ~Less(y, x)

\* std::max(a, b): returns a unless a < b
Max(a, b) == IF Less(a, b) THEN b ELSE a

\* std::min(a, b): returns a unless b < a
Min(a, b) == IF Less(b, a) THEN b ELSE a

\* ------------------------------------------------------------------------
\* LensOnePTwoCNewtonController
\* ------------------------------------------------------------------------

\* largest number of degrees of freedom of a solution function
MaxDof == 2

VARIABLES
    u,                 \* current iterate (owned by the Newton driver)
    uOld,              \* previous iterate (owned by the Newton driver)
    relDefect_,        \* Scalar relDefect_
    maxTimeStepSize_,  \* Scalar maxTimeStepSize_
    tolerance_,        \* NewtonController::tolerance_ (setRelTolerance)
    targetSteps_,      \* NewtonController target steps (setTargetSteps)
    maxSteps_,         \* NewtonController max steps (setMaxSteps)
    endStepCalled,     \* history: newtonEndStep has been called
    ret,               \* the last controller call and what it returned
    enableEnergy,      \* the EnableEnergy property of the local residual
    elemCtx,           \* the element context: numScv, volVars, evalPointVolVars
    call               \* the last call of the local residual and what it returned

ctlVars == <<u, uOld, relDefect_, maxTimeStepSize_, tolerance_, targetSteps_,
             maxSteps_, endStepCalled, ret>>

resVars == <<enableEnergy, elemCtx, call>>

vars == <<u, uOld, relDefect_, maxTimeStepSize_, tolerance_, targetSteps_,
          maxSteps_, endStepCalled, ret, enableEnergy, elemCtx, call>>

\* primary variables of one degree of freedom, indexed by konti and transport
Dof(k, t) == [konti |-> k, transport |-> t]

DofVals ==
    { Dof(Zero, Zero),
      Dof(Sc(1, 1, -4), Zero),
      Dof(Sc(-1, 1, -4), Zero),
      Dof(Sc(-4, 1, 3), Sc(2, 1, 0)) }

\* solution functions with n degrees of freedom
SolutionFunctions(n) == [1..n -> DofVals]

\* IPP_MaxTimeStepSize values of the interface file
MaxTimeStepSizes == { Sc(1, 1, 2), Sc(5, 1, 2) }

\* time step sizes the Newton driver passes and the base policy may return
TimeSteps == { Sc(5, 1, 1), Sc(1, 1, 2), Sc(2, 1, 2) }

RelTolerance == Sc(1, 1, -7)
TargetSteps == 9
MaxSteps == 18
RelDefectInitZero == Zero
RelDefectInit == Sc(1, 1, 100)
KontiFloor == Sc(1, 1, 3)
TransportFloor == Sc(1, 1, -3)

\* the constructor; the configuration value is read from the interface file
CtlInit ==
    /\ tolerance_ = RelTolerance
    /\ targetSteps_ = TargetSteps
    /\ maxSteps_ = MaxSteps
    /\ relDefect_ = RelDefectInit
    /\ maxTimeStepSize_ \in MaxTimeStepSizes
    /\ \E n \in 0..MaxDof : u \in SolutionFunctions(n) /\ uOld \in SolutionFunctions(n)
    /\ endStepCalled = FALSE
    /\ ret = [op |-> "ctor"]

\* the Newton driver, which owns both iterates, writes the primary variables
\* of one degree of freedom of one of them; the controller is not involved
driverUpdate ==
    /\ \E i \in 1..Len(u), v \in DofVals :
          \/ u' = [u EXCEPT ![i] = v] /\ UNCHANGED uOld
          \/ uOld' = [uOld EXCEPT ![i] = v] /\ UNCHANGED u
    /\ ret' = [op |-> "update"]
    /\ UNCHANGED <<relDefect_, maxTimeStepSize_, tolerance_, targetSteps_,
                   maxSteps_, endStepCalled>>
    /\ UNCHANGED resVars

NormP(ui, uOldi) ==
    Max(Max(KontiFloor, Abs(ui.konti)), Abs(uOldi.konti))

NormTrans(ui, uOldi) ==
    Max(Max(TransportFloor, Abs(ui.transport)), Abs(uOldi.transport))

\* a loop body that forgets the transport deviation
DefectStepKontiOnly(acc, ui, uOldi) ==
    Max(acc, Div(Abs(Sub(ui.konti, uOldi.konti)), NormP(ui, uOldi)))

\* one iteration of the loop over the degrees of freedom
DefectStep(acc, ui, uOldi) ==
    LET afterKonti ==
            Max(acc, Div(Abs(Sub(ui.konti, uOldi.konti)), NormP(ui, uOldi)))
    IN  Max(afterKonti,
            Div(Abs(Sub(ui.transport, uOldi.transport)), NormTrans(ui, uOldi)))

RECURSIVE DefectLoop(_, _, _, _)
DefectLoop(acc, uu, uuOld, i) ==
    IF i > Len(uu) THEN acc
    ELSE DefectLoop(DefectStep(acc, uu[i], uuOld[i]), uu, uuOld, i + 1)

\* a newtonEndStep that accumulates onto the previous defect
ResetDefectKeep(prev) == prev

\* a loop that starts from -1
ResetDefectNegative(prev) == Sc(-1, 1, 0)

\* relDefect_ = 0 before the loop
ResetDefect(prev) == Zero

\* relDefect_ after newtonEndStep(uu, uuOld) when it was prev before.  The
\* base class's newtonEndStep only does bookkeeping of its own members.
EndStepDefect(prev, uu, uuOld) == DefectLoop(ResetDefect(prev), uu, uuOld, 1)

newtonEndStep ==
    /\ relDefect_' = EndStepDefect(relDefect_, u, uOld)
    /\ endStepCalled' = TRUE
    /\ ret' = [op |-> "newtonEndStep", before |-> relDefect_]
    /\ UNCHANGED <<u, uOld, maxTimeStepSize_, tolerance_, targetSteps_, maxSteps_>>
    /\ UNCHANGED resVars

\* a strict comparison
NewtonConvergedStrict(defect, tol) == Less(defect, tol)

NewtonConvergedValue(defect, tol) == Leq(defect, tol)

\* a newtonConverged that puts the sentinel back once the defect is read
newtonConvergedResetting ==
    /\ ret' = [op |-> "newtonConverged",
               value |-> NewtonConvergedValue(relDefect_, tolerance_)]
    /\ relDefect_' = RelDefectInit
    /\ UNCHANGED <<u, uOld, maxTimeStepSize_, tolerance_,
                   targetSteps_, maxSteps_, endStepCalled>>
    /\ UNCHANGED resVars

newtonConverged ==
    /\ ret' = [op |-> "newtonConverged",
               value |-> NewtonConvergedValue(relDefect_, tolerance_)]
    /\ UNCHANGED <<u, uOld, relDefect_, maxTimeStepSize_, tolerance_,
                   targetSteps_, maxSteps_, endStepCalled>>
    /\ UNCHANGED resVars

\* the base suggestion passed through unbounded
SuggestValueUnbounded(maxSize, base) == base

SuggestValue(maxSize, base) == Min(maxSize, base)

\* base is what ParentType::suggestTimeStepSize(oldTimeStep) returns
suggestTimeStepSize ==
    \E oldTimeStep \in TimeSteps, base \in TimeSteps :
        /\ ret' = [op |-> "suggestTimeStepSize", base |-> base,
                   value |-> SuggestValue(maxTimeStepSize_, base)]
        /\ UNCHANGED <<u, uOld, relDefect_, maxTimeStepSize_, tolerance_,
                       targetSteps_, maxSteps_, endStepCalled>>
        /\ UNCHANGED resVars

CtlNext ==
    \/ driverUpdate
    \/ newtonEndStep
    \/ newtonConverged
    \/ suggestTimeStepSize

\* ------------------------------------------------------------------------
\* NcpLocalResidual
\* ------------------------------------------------------------------------

\* largest number of sub-control-volumes of an element
MaxScv == 2

\* the NumPhases and NumComponents properties and Indices::phase0NcpIdx of a
\* two-phase, two-component type tag: the NCP rows follow the component rows
NumPhases == 2
NumComponents == 2
Phase0NcpIdx == 2
NumEq == NumComponents + NumPhases

Phases == 0..(NumPhases - 1)
Components == 0..(NumComponents - 1)
EqIndices == 0..(NumEq - 1)
TimeIndices == {0, 1}

\* an EqVector / RateVector with integer entries
Vec(a, b, c, d) ==
    [i \in EqIndices |->
        Sc(IF i = 0 THEN a ELSE IF i = 1 THEN b ELSE IF i = 2 THEN c ELSE d, 1, 0)]

ZeroVec == [i \in EqIndices |-> Zero]

\* operator+= of EqVector
VecAdd(v, w) == [i \in EqIndices |-> Add(v[i], w[i])]

FluidState(s0, s1, x00, x01, x10, x11) ==
    [saturation |-> [p \in Phases |-> IF p = 0 THEN s0 ELSE s1],
     moleFraction |->
        [p \in Phases |->
            [c \in Components |->
                IF p = 0 THEN (IF c = 0 THEN x00 ELSE x01)
                ELSE (IF c = 0 THEN x10 ELSE x11)]]]

\* The volume variables objects, by name: the fluid state
\* and the terms the mass residual, the energy residual and the problem compute
\* for it.
\*   "A": phase 0 has 1 - sum x = 1/2 > S = 1/4; phase 1 has both 3/4.
\*   "B": phase 0 has sum x = 1 and S = 1; phase 1 has 1 - sum x = 1/4 > S = 0.
VolVars(id) ==
    IF id = "A" THEN
    [fluidState |-> FluidState(Sc(1, 4, 0), Sc(3, 4, 0),
                               Sc(1, 4, 0), Sc(1, 4, 0), Sc(1, 8, 0), Sc(1, 8, 0)),
     massStorage |-> Vec(1, 2, 0, 0), energyStorage |-> Vec(0, 0, 0, 5),
     problemSource |-> Vec(3, 0, 1, 0), massSource |-> Vec(0, 4, 0, 0),
     energySource |-> Vec(0, 0, 0, 6)]
    ELSE
    [fluidState |-> FluidState(Sc(1, 1, 0), Zero,
                               Sc(1, 2, 0), Sc(1, 2, 0), Sc(1, 2, 0), Sc(1, 4, 0)),
     massStorage |-> Vec(7, 1, 0, 0), energyStorage |-> Vec(0, 0, 0, 2),
     problemSource |-> Vec(0, 5, 0, 2), massSource |-> Vec(1, 1, 0, 0),
     energySource |-> Vec(0, 0, 0, 9)]

VolVarsIds == {"A", "B"}

\* elemCtx.volVars(scvIdx, timeIdx)
VolVarsAt(ctx, scvIdx, timeIdx) == VolVars(ctx.volVars[scvIdx][timeIdx])

\* elemCtx.evalPointVolVars(scvIdx, timeIdx)
EvalPointVolVarsAt(ctx, scvIdx, timeIdx) == VolVars(ctx.evalPointVolVars[scvIdx][timeIdx])

ElementContexts ==
    UNION { [numScv : {n},
             volVars : [0..(n - 1) -> [TimeIndices -> VolVarsIds]],
             evalPointVolVars : [0..(n - 1) -> [TimeIndices -> VolVarsIds]]]
            : n \in 1..MaxScv }

\* what an output vector may hold before a call
PriorVectors == {ZeroVec, Vec(11, 12, 13, 14)}

\* what the generic base assembly leaves in residual and storageTerm
BaseBlock(n, k) == [s \in 0..(n - 1) |-> [i \in EqIndices |-> Sc(k + 10 * s + i, 1, 0)]]

BaseAssemblies(n) ==
    { [residual |-> BaseBlock(n, k), storageTerm |-> BaseBlock(n, k + 100)] : k \in {20, 60} }

ResInit ==
    /\ enableEnergy \in BOOLEAN
    /\ elemCtx \in ElementContexts
    /\ call = [op |-> "none"]

\* --- mass residual, energy residual and problem ---------------------------

\* MassResid::computeStorage(storage, volVars): adds the mass storage
MassComputeStorage(storage, volVars) == VecAdd(storage, volVars.massStorage)

\* EnergyResid::computeStorage(storage, volVars): adds the energy storage if
\* energy is enabled, does nothing otherwise
EnergyComputeStorage(storage, volVars, energy) ==
    IF energy THEN VecAdd(storage, volVars.energyStorage) ELSE storage

\* elemCtx.problem().source(source, elemCtx, scvIdx, timeIdx): sets the source
ProblemSource(source, ctx, scvIdx, timeIdx) == VolVarsAt(ctx, scvIdx, timeIdx).problemSource

\* MassResid::computeSource(tmp, elemCtx, scvIdx, timeIdx): adds the mass source
MassComputeSource(tmp, ctx, scvIdx, timeIdx) ==
    VecAdd(tmp, VolVarsAt(ctx, scvIdx, timeIdx).massSource)

\* ParentType::eval(residual, storageTerm, elemCtx): the base assembly a
BaseEval(a, ctx) == [residual |-> a.residual, storageTerm |-> a.storageTerm]

\* --- NcpLocalResidual -------------------------------------------------------

\* a computeStorage that adds onto what the output vector held
ComputeStorageNoReset(storage, ctx, scvIdx, timeIdx, energy) ==
    LET volVars == VolVarsAt(ctx, scvIdx, timeIdx)
    IN  EnergyComputeStorage(MassComputeStorage(storage, volVars), volVars, energy)

ComputeStorage(storage, ctx, scvIdx, timeIdx, energy) ==
    LET volVars == VolVarsAt(ctx, scvIdx, timeIdx)
        s0 == ZeroVec
        s1 == MassComputeStorage(s0, volVars)
    IN  EnergyComputeStorage(s1, volVars, energy)

computeStorage ==
    /\ call.op = "none"
    /\ \E storage \in PriorVectors, scvIdx \in 0..(elemCtx.numScv - 1), timeIdx \in TimeIndices :
           /\ call' = [op |-> "computeStorage", prior |-> storage, scvIdx |-> scvIdx,
                       timeIdx |-> timeIdx,
                       value |-> ComputeStorage(storage, elemCtx, scvIdx, timeIdx, enableEnergy)]
           /\ UNCHANGED <<enableEnergy, elemCtx>>
           /\ UNCHANGED ctlVars

\* a computeSource with the energy source enabled
ComputeSourceWithEnergy(source, ctx, scvIdx, timeIdx, energy) ==
    LET s1 == ProblemSource(source, ctx, scvIdx, timeIdx)
        s2 == VecAdd(s1, MassComputeSource(ZeroVec, ctx, scvIdx, timeIdx))
    IN  IF energy THEN VecAdd(s2, VolVarsAt(ctx, scvIdx, timeIdx).energySource) ELSE s2

ComputeSource(source, ctx, scvIdx, timeIdx, energy) ==
    LET s1  == ProblemSource(source, ctx, scvIdx, timeIdx)
        tmp == MassComputeSource(ZeroVec, ctx, scvIdx, timeIdx)
    IN  VecAdd(s1, tmp)

computeSource ==
    /\ call.op = "none"
    /\ \E source \in PriorVectors, scvIdx \in 0..(elemCtx.numScv - 1), timeIdx \in TimeIndices :
           /\ call' = [op |-> "computeSource", prior |-> source, scvIdx |-> scvIdx,
                       timeIdx |-> timeIdx,
                       value |-> ComputeSource(source, elemCtx, scvIdx, timeIdx, enableEnergy)]
           /\ UNCHANGED <<enableEnergy, elemCtx>>
           /\ UNCHANGED ctlVars

PhasePresentIneq(fluidState, phaseIdx) == fluidState.saturation[phaseIdx]

\* a = 1; for (i = 0; i < numComponents; ++i) a -= moleFraction(phaseIdx, i)
RECURSIVE NotPresentLoop(_, _, _, _)
NotPresentLoop(a, fluidState, phaseIdx, i) ==
    IF i >= NumComponents THEN a
    ELSE NotPresentLoop(Sub(a, fluidState.moleFraction[phaseIdx][i]),
                        fluidState, phaseIdx, i + 1)

\* a loop that also subtracts the saturation
PhaseNotPresentIneqWithSaturation(fluidState, phaseIdx) ==
    Sub(NotPresentLoop(One, fluidState, phaseIdx, 0), fluidState.saturation[phaseIdx])

PhaseNotPresentIneq(fluidState, phaseIdx) == NotPresentLoop(One, fluidState, phaseIdx, 0)

\* a switch that takes the 'present' branch on a tie
PhaseNcpTieIsPresent(ctx, scvIdx, timeIdx, phaseIdx) ==
    LET fsEval == EvalPointVolVarsAt(ctx, scvIdx, timeIdx).fluidState
        fs     == VolVarsAt(ctx, scvIdx, timeIdx).fluidState
        aEval  == PhaseNotPresentIneq(fsEval, phaseIdx)
        bEval  == PhasePresentIneq(fsEval, phaseIdx)
    IN  IF Leq(bEval, aEval) THEN PhasePresentIneq(fs, phaseIdx)
        ELSE PhaseNotPresentIneq(fs, phaseIdx)

PhaseNcp(ctx, scvIdx, timeIdx, phaseIdx) ==
    LET fsEval == EvalPointVolVarsAt(ctx, scvIdx, timeIdx).fluidState
        fs     == VolVarsAt(ctx, scvIdx, timeIdx).fluidState
        aEval  == PhaseNotPresentIneq(fsEval, phaseIdx)
        bEval  == PhasePresentIneq(fsEval, phaseIdx)
    IN  IF Less(bEval, aEval) THEN PhasePresentIneq(fs, phaseIdx)
        ELSE PhaseNotPresentIneq(fs, phaseIdx)

phaseNcp_ ==
    /\ call.op = "none"
    /\ \E scvIdx \in 0..(elemCtx.numScv - 1), timeIdx \in TimeIndices, phaseIdx \in Phases :
           /\ call' = [op |-> "phaseNcp_", scvIdx |-> scvIdx, timeIdx |-> timeIdx,
                       phaseIdx |-> phaseIdx,
                       value |-> PhaseNcp(elemCtx, scvIdx, timeIdx, phaseIdx)]
           /\ UNCHANGED <<enableEnergy, elemCtx>>
           /\ UNCHANGED ctlVars

phaseNotPresentIneq_ ==
    /\ call.op = "none"
    /\ \E fluidState \in {VolVars(id).fluidState : id \in VolVarsIds}, phaseIdx \in Phases :
           /\ call' = [op |-> "phaseNotPresentIneq_", fluidState |-> fluidState,
                       phaseIdx |-> phaseIdx,
                       value |-> PhaseNotPresentIneq(fluidState, phaseIdx)]
           /\ UNCHANGED <<enableEnergy, elemCtx>>
           /\ UNCHANGED ctlVars

\* loops that write the rows phaseIdx instead of phase0NcpIdx + phaseIdx
NcpRowsFromRowZero(residual, ctx) ==
    [s \in DOMAIN residual |->
        [i \in EqIndices |->
            IF i \in 0..(NumPhases - 1)
            THEN PhaseNcp(ctx, s, 0, i)
            ELSE residual[s][i]]]

\* the loops over the sub-control-volumes and the phases
NcpRows(residual, ctx) ==
    [s \in DOMAIN residual |->
        [i \in EqIndices |->
            IF i \in Phase0NcpIdx..(Phase0NcpIdx + NumPhases - 1)
            THEN PhaseNcp(ctx, s, 0, i - Phase0NcpIdx)
            ELSE residual[s][i]]]

\* an eval whose NCP rows are written before the base assembly runs
EvalBaseLast(a, ctx) == BaseEval(a, ctx)

\* eval(residual, storageTerm, elemCtx), a being what the base assembly produces
Eval(a, ctx) ==
    LET base == BaseEval(a, ctx)
    IN  [residual |-> NcpRows(base.residual, ctx), storageTerm |-> base.storageTerm]

eval ==
    /\ call.op = "none"
    /\ \E a \in BaseAssemblies(elemCtx.numScv) :
           /\ call' = [op |-> "eval", base |-> a, out |-> Eval(a, elemCtx)]
           /\ UNCHANGED <<enableEnergy, elemCtx>>
           /\ UNCHANGED ctlVars

\* the caller takes the returned value; the local residual is used by one
\* caller at a time, and its methods are const and keep nothing between calls
return ==
    /\ call.op # "none"
    /\ call' = [op |-> "none"]
    /\ UNCHANGED <<enableEnergy, elemCtx>>
    /\ UNCHANGED ctlVars

ResNext ==
    \/ return
    \/ computeStorage
    \/ computeSource
    \/ phaseNcp_
    \/ phaseNotPresentIneq_
    \/ eval

\* ------------------------------------------------------------------------
\* Specifications
\* ------------------------------------------------------------------------

\* The controller and the local residual share no state.  Spec is their
\* product; SpecController and SpecResidual run one of them beside a fixed
\* instance of the other.
Init == CtlInit /\ ResInit

Next == CtlNext \/ ResNext

Spec == Init /\ [][Next]_vars

\* the Newton controller, beside the local residual of one fixed element
InitController ==
    /\ CtlInit
    /\ enableEnergy = FALSE
    /\ elemCtx = [numScv |-> 1,
                  volVars |-> [s \in {0} |-> [t \in TimeIndices |-> "A"]],
                  evalPointVolVars |-> [s \in {0} |-> [t \in TimeIndices |-> "A"]]]
    /\ call = [op |-> "none"]

SpecController == InitController /\ [][CtlNext]_vars

\* the local residual, beside one fresh controller
InitResidual ==
    /\ ResInit
    /\ tolerance_ = RelTolerance
    /\ targetSteps_ = TargetSteps
    /\ maxSteps_ = MaxSteps
    /\ relDefect_ = RelDefectInit
    /\ maxTimeStepSize_ = Sc(1, 1, 2)
    /\ u = <<>>
    /\ uOld = <<>>
    /\ endStepCalled = FALSE
    /\ ret = [op |-> "ctor"]

SpecResidual == InitResidual /\ [][ResNext]_vars

\* ------------------------------------------------------------------------
\* Properties of the controller
\* ------------------------------------------------------------------------

\* the greatest element of a non-empty finite set of Scalars
Greatest(S) == CHOOSE m \in S : \A x \in S : x = m \/ Less(x, m)

KontiDeviation(i) ==
    Div(Abs(Sub(u[i].konti, uOld[i].konti)),
        Greatest({Sc(1000, 1, 0), Abs(u[i].konti), Abs(uOld[i].konti)}))

TransportDeviation(i) ==
    Div(Abs(Sub(u[i].transport, uOld[i].transport)),
        Greatest({Sc(1, 1000, 0), Abs(u[i].transport), Abs(uOld[i].transport)}))

Deviations ==
    {KontiDeviation(i) : i \in 1..Len(u)} \cup {TransportDeviation(i) : i \in 1..Len(u)}

\* C2: after newtonEndStep(u, uOld), relDefect_ is the maximum over all degrees
\* of freedom of the konti deviation scaled by max(1e3, |u|, |uOld|) and the
\* transport deviation scaled by max(1e-3, |u|, |uOld|): it is one of these
\* deviations (or zero, which none of them is below) and none exceeds it.
C2_MaxNormDefect ==
    ret.op = "newtonEndStep" =>
        /\ relDefect_ \in Deviations \cup {Zero}
        /\ \A x \in Deviations \cup {Zero} : x = relDefect_ \/ Less(x, relDefect_)

\* a konti deviation of the first degree of freedom determines the result although
\* the transport deviation dominates in the second degree of freedom
C2_Witness ==
    /\ ret.op = "newtonEndStep"
    /\ Len(u) = 2
    /\ Less(TransportDeviation(1), KontiDeviation(1))
    /\ Less(KontiDeviation(2), TransportDeviation(2))
    /\ Less(TransportDeviation(2), KontiDeviation(1))
    /\ relDefect_ = KontiDeviation(1)

\* C3: the value of relDefect_ after newtonEndStep(u, uOld) is the one any
\* other previous value of relDefect_ (the sentinel of a fresh controller, zero,
\* the tolerance, one) would have led to for the same u and uOld.
C3_RecomputedWholesale ==
    ret.op = "newtonEndStep" =>
        \A prev \in {RelDefectInit, Zero, RelTolerance, One, ret.before} :
            relDefect_ = EndStepDefect(prev, u, uOld)

\* a controller whose defect was within the tolerance has a strictly larger
\* defect, above the tolerance, after the next newtonEndStep
C3_Witness ==
    /\ ret.op = "newtonEndStep"
    /\ Leq(ret.before, tolerance_)
    /\ Less(tolerance_, relDefect_)
    /\ Less(ret.before, relDefect_)

\* a controller holding the sentinel has a strictly smaller defect after the
\* next newtonEndStep
C3_WitnessSmaller ==
    /\ ret.op = "newtonEndStep"
    /\ ret.before = RelDefectInit
    /\ Less(relDefect_, ret.before)

\* C4: newtonConverged() returns true iff relDefect_ is below or equal to the
\* tolerance.
C4_ConvergedIffWithinTolerance ==
    ret.op = "newtonConverged" =>
        (ret.value <=> (relDefect_ = tolerance_ \/ Less(relDefect_, tolerance_)))

\* newtonConverged() returned true for a defect exactly equal to the tolerance
C4_Witness ==
    /\ ret.op = "newtonConverged"
    /\ endStepCalled
    /\ relDefect_ = tolerance_
    /\ ret.value = TRUE

\* newtonConverged() returned false for a defect of twice the tolerance
C4_WitnessAbove ==
    /\ ret.op = "newtonConverged"
    /\ relDefect_ = Sc(2, 1, -7)
    /\ ret.value = FALSE

\* C5: suggestTimeStepSize returns the smaller of maxTimeStepSize_ and the base
\* suggestion: never more than the bound, and the base suggestion itself when
\* that is below the bound.
C5_TimeStepBounded ==
    ret.op = "suggestTimeStepSize" =>
        /\ ~Less(maxTimeStepSize_, ret.value)
        /\ ~Less(ret.base, ret.value)
        /\ ret.value \in {maxTimeStepSize_, ret.base}
        /\ Less(ret.base, maxTimeStepSize_) => ret.value = ret.base

\* the base suggestion exceeded the bound and the bound was returned
C5_Witness ==
    /\ ret.op = "suggestTimeStepSize"
    /\ Less(maxTimeStepSize_, ret.base)
    /\ ret.value = maxTimeStepSize_

\* C7: until the first newtonEndStep the controller holds the sentinel 1e100,
\* tolerance 1e-7, target steps 9 and max steps 18, and newtonConverged()
\* returns false.
C7_FreshNotConverged ==
    ~endStepCalled =>
        /\ relDefect_ = Sc(1, 1, 100)
        /\ tolerance_ = Sc(1, 10000000, 0)
        /\ targetSteps_ = 9
        /\ maxSteps_ = 18
        /\ ret.op = "newtonConverged" => ret.value = FALSE

\* newtonConverged() was called before any newtonEndStep
C7_Witness ==
    /\ ~endStepCalled
    /\ ret.op = "newtonConverged"
    /\ ret.value = FALSE

\* ------------------------------------------------------------------------
\* Properties of the local residual
\* ------------------------------------------------------------------------

\* the sum of the mole fractions of all components in a phase
RECURSIVE MoleFractionSum(_, _, _)
MoleFractionSum(fluidState, phaseIdx, n) ==
    IF n = 0 THEN Zero
    ELSE Add(MoleFractionSum(fluidState, phaseIdx, n - 1),
             fluidState.moleFraction[phaseIdx][n - 1])

\* 1 - sum_i moleFraction(phase, i)
Deficit(fluidState, phaseIdx) ==
    Sub(Sc(1, 1, 0), MoleFractionSum(fluidState, phaseIdx, NumComponents))

CallEvalState == VolVars(elemCtx.evalPointVolVars[call.scvIdx][call.timeIdx]).fluidState
CallCurrentState == VolVars(elemCtx.volVars[call.scvIdx][call.timeIdx]).fluidState

\* C1: phaseNcp_ returns the saturation of the phase in the current state if, in
\* the evaluation-point state, 1 - sum x is strictly greater than the
\* saturation, and 1 - sum x of the current state otherwise (also on a tie).
C1_PhaseNcpSwitch ==
    call.op = "phaseNcp_" =>
        LET present == Less(CallEvalState.saturation[call.phaseIdx],
                            Deficit(CallEvalState, call.phaseIdx))
        IN  /\ present => call.value = CallCurrentState.saturation[call.phaseIdx]
            /\ ~present => call.value = Deficit(CallCurrentState, call.phaseIdx)

\* the two evaluation-point values are equal, the two current-state values
\* differ, and the 'absent' value of the current state was returned
C1_Witness ==
    /\ call.op = "phaseNcp_"
    /\ CallEvalState.saturation[call.phaseIdx] = Deficit(CallEvalState, call.phaseIdx)
    /\ CallCurrentState.saturation[call.phaseIdx] # Deficit(CallCurrentState, call.phaseIdx)
    /\ call.value = Deficit(CallCurrentState, call.phaseIdx)

Elsewhere(fluidState, phaseIdx) ==
    [saturation |-> [p \in Phases |-> Add(fluidState.saturation[p], Sc(1, 3, 0))],
     moleFraction |->
        [p \in Phases |->
            [c \in Components |->
                IF p = phaseIdx THEN fluidState.moleFraction[p][c]
                ELSE Add(fluidState.moleFraction[p][c], Sc(1, 5, 0))]]]

CallVolVars == VolVars(elemCtx.volVars[call.scvIdx][call.timeIdx])

\* C9: computeSource returns the problem's source term plus the mass residual's
\* source term of that sub-control-volume and time level, with energy enabled
\* or not and whatever the output vector held before.
C9_SourceIsProblemPlusMass ==
    call.op = "computeSource" =>
        \A i \in EqIndices :
            call.value[i] = Add(CallVolVars.problemSource[i], CallVolVars.massSource[i])

\* computeSource returned with energy enabled, for volume variables with an
\* energy source, into an output vector that held other values
C9_Witness ==
    /\ call.op = "computeSource"
    /\ enableEnergy
    /\ CallVolVars.energySource # ZeroVec
    /\ call.prior # ZeroVec
    /\ call.value # call.prior

\* C10: computeStorage returns the mass storage plus, if energy is enabled, the
\* energy storage of the volume variables of that sub-control-volume and time
\* level, whatever the output vector held before.
C10_StorageIsMassPlusEnergy ==
    call.op = "computeStorage" =>
        \A i \in EqIndices :
            call.value[i] =
                IF enableEnergy
                THEN Add(CallVolVars.massStorage[i], CallVolVars.energyStorage[i])
                ELSE CallVolVars.massStorage[i]

\* computeStorage returned with energy enabled, for the previous time level of
\* the second sub-control-volume, whose volume variables differ from those of
\* the current time level, into an output vector that held other values
C10_Witness ==
    /\ call.op = "computeStorage"
    /\ enableEnergy
    /\ call.scvIdx = 1
    /\ call.timeIdx = 1
    /\ elemCtx.volVars[1][0] # elemCtx.volVars[1][1]
    /\ elemCtx.volVars[0][1] # elemCtx.volVars[1][1]
    /\ call.prior # ZeroVec

\* ------------------------------------------------------------------------
\* Frame and range properties
\* ------------------------------------------------------------------------

\* C11: no step changes maxTimeStepSize_; a newtonConverged() or
\* suggestTimeStepSize() call leaves relDefect_ and the tolerance as they were;
\* and a newtonConverged() call right after another returns the same answer.
C11_QueriesArePure ==
    [][/\ maxTimeStepSize_' = maxTimeStepSize_
       /\ ret'.op \in {"newtonConverged", "suggestTimeStepSize"} =>
             /\ relDefect_' = relDefect_
             /\ tolerance_' = tolerance_
       /\ (ret.op = "newtonConverged" /\ ret'.op = "newtonConverged") =>
             ret'.value = ret.value]_vars

\* newtonConverged() has answered true after a newtonEndStep, and the defect
\* that newtonEndStep computed and the configured values are still in place
C11_Witness ==
    /\ ret.op = "newtonConverged"
    /\ ret.value = TRUE
    /\ endStepCalled
    /\ Len(u) = 2
    /\ relDefect_ = EndStepDefect(relDefect_, u, uOld)
    /\ relDefect_ = tolerance_
    /\ maxTimeStepSize_ = Sc(500, 1, 0)

\* C12: relDefect_ is never below 0, and it is exactly 0 after a newtonEndStep
\* on solution functions without degrees of freedom.
C12_DefectNonNegative ==
    /\ ~Less(relDefect_, Zero)
    /\ (ret.op = "newtonEndStep" /\ Len(u) = 0) => relDefect_ = Zero

\* newtonEndStep has run on solution functions without degrees of freedom
\* and has replaced the sentinel by 0
C12_Witness ==
    /\ ret.op = "newtonEndStep"
    /\ Len(u) = 0
    /\ ret.before = Sc(1, 1, 100)
    /\ relDefect_ = Zero

\* newtonEndStep has run on negative konti values and a deviation that is
\* negative before std::abs, and the defect is positive
C12_WitnessSigned ==
    /\ ret.op = "newtonEndStep"
    /\ Len(u) = 1
    /\ Less(u[1].konti, uOld[1].konti)
    /\ Less(u[1].konti, Zero)
    /\ Less(Zero, relDefect_)

NcpRowIndices == Phase0NcpIdx..(Phase0NcpIdx + NumPhases - 1)

\* C13: what eval returns differs from what the base assembly produced only in
\* the rows phase0NcpIdx .. phase0NcpIdx + numPhases - 1 of the residual: every
\* other residual row and the whole storageTerm are the base assembly's, and
\* the element context is as it was.
C13_EvalFrame ==
    [][call'.op = "eval" =>
          /\ elemCtx' = elemCtx
          /\ DOMAIN call'.out.residual = DOMAIN call'.base.residual
          /\ \A s \in DOMAIN call'.base.residual :
                \A i \in EqIndices \ NcpRowIndices :
                    call'.out.residual[s][i] = call'.base.residual[s][i]
          /\ call'.out.storageTerm = call'.base.storageTerm]_vars

\* eval has returned for an element of two sub-control-volumes: the NCP rows
\* of both differ from the base assembly's, the other rows do not
C13_Witness ==
    /\ call.op = "eval"
    /\ elemCtx.numScv = 2
    /\ \A s \in 0..1 :
          /\ \A i \in NcpRowIndices :
                call.out.residual[s][i] # call.base.residual[s][i]
          /\ \A i \in EqIndices \ NcpRowIndices :
                call.out.residual[s][i] = call.base.residual[s][i]
    /\ call.out.storageTerm = call.base.storageTerm

====
